---------------------------- MODULE Spec2Model ----------------------------
(***************************************************************************)
(* Model of the policy middleware of src/src/index.ts: the factory         *)
(* opaMiddlewareConfig(opa, defaults), the route-handler constructor       *)
(* opaMiddleware(options), and the asynchronous request handler it returns.*)
(*                                                                         *)
(* JavaScript runs each handler to its next `await` without interleaving,  *)
(* so every action below is one such run-to-suspension segment.  The       *)
(* order of the calls made inside a segment is kept in trace[r].           *)
(***************************************************************************)
EXTENDS Integers, Sequences, FiniteSets, TLC

\* ------------------------------------------------------------------ bounds
MaxRequests == 1

Requests == 1 .. MaxRequests

\* ------------------------------------------------------------ JS values
\* A missing option (JavaScript undefined) of a configuration layer.
Undefined == "undefined"

\* The value a failed extraction leaves in the field map (acc[key] = undefined).
UndefinedValue == [v |-> "undefined"]

\* An object without keys, {}.
EmptyObject == [k \in {} |-> TRUE]

\* obj.key is present and truthy (the values stored under the keys read this
\* way are booleans).
Truthy(obj, key) == key \in DOMAIN obj /\ obj[key] = TRUE

\* ------------------------------------------------------- input domains
\* Names of required fields a layer may declare.
Keys == {"a", "b"}

\* Order in which lodash.reduce visits the keys of the merged mapping.
KeyOrder == <<"a", "b">>

\* The identifiers of the caller's functions: the ones given in the
\* caller-supplied defaults and the ones given in the route options.
FromDefaults == "defaults"
FromOptions == "options"

\* Configuration layers (OpaMiddlewareOptions): every stage is optional,
\* `required` maps field names to extractors.  doPost and logger are
\* mandatory in the caller defaults and absent from route options.
Layer(src, stages, reqKeys) ==
  [ required                  |-> [k \in reqKeys |-> src],
    toPolicyEvaluationRequest |-> IF "toPolicyEvaluationRequest" \in stages THEN src ELSE Undefined,
    decisionPath              |-> IF "decisionPath" \in stages THEN src ELSE Undefined,
    onDecision                |-> IF "onDecision" \in stages THEN src ELSE Undefined,
    doPost                    |-> IF src = FromDefaults THEN src ELSE Undefined,
    logger                    |-> IF src = FromDefaults THEN src ELSE Undefined ]

StageNames == {"toPolicyEvaluationRequest", "decisionPath", "onDecision"}

\* Every layer over the stages and keys above (used to check the merge).
AllLayers(src) == { Layer(src, st, ks) : st \in SUBSET StageNames, ks \in SUBSET Keys }

\* The routes the application registers a handler for, and the ones the
\* request pipeline is exercised on.
RouteNames == {"/users", "/items"}
PipelineRoutes == {"/users"}

\* The layers the request pipeline is exercised with.
DefaultsInputs ==
  { Layer(FromDefaults, {}, {"a"}),
    Layer(FromDefaults, {"onDecision"}, {}) }

OptionsInputs ==
  { Layer(FromOptions, {}, {}),
    Layer(FromOptions, {}, {"b"}),
    Layer(FromOptions, StageNames, {}) }

\* PolicyConfiguration: url and dryRun {enabled, header}.
OpaUrl == <<"http://opa:8181/v1/data">>
PolicyConfigurations ==
  [ url : {OpaUrl}, dryRun : [enabled : BOOLEAN, header : {"x-authorizer"}] ]

\* The request as the host hands it over.
RequestInputs ==
  { [method |-> "GET", baseUrl |-> "/users", params |-> <<"user_id">>] }

\* Documents the decision point may answer with: result may be missing,
\* result.allow may be missing, and further keys may be present, here a
\* top-level allow.
Results == {EmptyObject} \cup { [allow |-> b] : b \in BOOLEAN }
TopLevels == { [decision_id |-> "x"], [decision_id |-> "x", allow |-> TRUE] }
Decisions == TopLevels \cup { ("result" :> res) @@ t : t \in TopLevels, res \in Results }

\* Error values.
Forbidden == "Error: OPA-POLICY - FORBIDDEN"
ErrBuilder == "error thrown by toPolicyEvaluationRequest"
ErrPath == "error thrown by decisionPath"
ErrPost == "error of the rejected doPost call"
ErrHandler == "error thrown by onDecision"
ErrVerdict == "error passed by a custom onDecision to its continuation"
NoArg == "no argument"

\* ------------------------------------------------ configuration merge
\* lodash.merge on the nested `required` objects: keys of both, the later
\* source winning on a shared key.
mergeRequired(dreq, oreq) ==
  [k \in DOMAIN dreq \cup DOMAIN oreq |-> IF k \in DOMAIN oreq THEN oreq[k] ELSE dreq[k]]

\* lodash.merge on a function-valued or missing key: an undefined source
\* value is skipped, anything else is assigned.
mergeValue(d, o) == IF o # Undefined THEN o ELSE d

\* A plausible slip: shallow assignment, a route's `required` replacing the
\* defaults' wholesale.
mergeShallow(d, o) ==
  [ required                  |-> IF DOMAIN o.required # {} THEN o.required ELSE d.required,
    toPolicyEvaluationRequest |-> mergeValue(d.toPolicyEvaluationRequest, o.toPolicyEvaluationRequest),
    decisionPath              |-> mergeValue(d.decisionPath, o.decisionPath),
    onDecision                |-> mergeValue(d.onDecision, o.onDecision),
    doPost                    |-> mergeValue(d.doPost, o.doPost),
    logger                    |-> mergeValue(d.logger, o.logger) ]

\* merge({}, defaults, options)
merge(d, o) ==
  [ required                  |-> mergeRequired(d.required, o.required),
    toPolicyEvaluationRequest |-> mergeValue(d.toPolicyEvaluationRequest, o.toPolicyEvaluationRequest),
    decisionPath              |-> mergeValue(d.decisionPath, o.decisionPath),
    onDecision                |-> mergeValue(d.onDecision, o.onDecision),
    doPost                    |-> mergeValue(d.doPost, o.doPost),
    logger                    |-> mergeValue(d.logger, o.logger) ]

\* The built-in stages, named as the source names them.
BuiltinBuilder == "toPolicyEvaluationRequestDefault"
BuiltinPath == "decisionPathDefault"
BuiltinOnDecision == "onDecisionDefault"

\* The destructuring with defaults: a stage still undefined after the merge
\* is bound to the built-in.
Destructure(m) ==
  [ required                  |-> m.required,
    toPolicyEvaluationRequest |-> IF m.toPolicyEvaluationRequest = Undefined
                                  THEN BuiltinBuilder ELSE m.toPolicyEvaluationRequest,
    decisionPath              |-> IF m.decisionPath = Undefined THEN BuiltinPath ELSE m.decisionPath,
    onDecision                |-> IF m.onDecision = Undefined THEN BuiltinOnDecision ELSE m.onDecision,
    doPost                    |-> m.doPost,
    logger                    |-> m.logger ]

\* ------------------------------------------------------------- state
VARIABLES
  opa,        \* the PolicyConfiguration the factory was built with
  defaults,   \* the caller-supplied defaults the factory was built with
  routes,     \* per route: the handler created for it, [created, options, config]
  pc,         \* per request: where its handler invocation stands
  req,        \* per request: the request object [input, route, policyEvaluation]
  frame,      \* per request: the handler's locals
  posted,     \* per request: the calls made to doPost, <<[url, data]>>
  headers,    \* per request: the response headers appended, <<[name, value]>>
  trace       \* per request: the calls made, in order, <<[ev, arg]>>

vars == <<opa, defaults, routes, pc, req, frame, posted, headers, trace>>

confVars == <<opa, defaults>>
reqVars == <<pc, req, frame, posted, headers, trace>>

Unset == [unset |-> TRUE]

NoRoute == [created |-> FALSE]

\* The handler's locals: requiredData, opaRequest, policyPath, data, and the
\* continuation a Decision Handler still holds.  With them, what the
\* collaborators did: the keys whose extractor threw, the exception a stage
\* raised, what process.env.OPA_ADMISSION_CONTROL_DISABLED held when read,
\* and the arguments the Decision Handler passed to its continuation.
NoFrame == [requiredData |-> Unset, opaRequest |-> Unset, policyPath |-> <<>>,
            data |-> Unset, continuation |-> "none",
            threw |-> {}, raised |-> "none", flag |-> "unread", passed |-> <<>>]

Event(e, a) == [ev |-> e, arg |-> a]

\* A plausible slip: without `acc[key] = undefined` in the catch clause,
\* the key of a throwing extractor is missing from the field map.
fetchRequiredDataDropsKey(r, required, throws) ==
  [ data  |-> [k \in DOMAIN required \ throws |->
                 [v |-> "value", key |-> k, by |-> required[k], of |-> r]],
    calls |-> <<>> ]

\* A plausible slip: the extracted values kept from the first request and
\* served to every later one.
fetchRequiredDataCached(r, required, throws) ==
  [ data  |-> [k \in DOMAIN required |->
                 IF k \in throws THEN UndefinedValue
                 ELSE [v |-> "value", key |-> k, by |-> required[k], of |-> 1]],
    calls |-> LET Failed(k) == k \in DOMAIN required /\ k \in throws
                  failed == SelectSeq(KeyOrder, Failed)
              IN [i \in 1 .. Len(failed) |-> Event("logger.error KO OPA-MID--FETCH-DATA", failed[i])] ]

\* ------------------------------------------------- the pipeline's stages
\* fetchRequiredData: reduce over the mapping; an extractor that throws
\* (the keys in `throws`) is logged and its key set to undefined.
fetchRequiredData(r, required, throws) ==
  [ data  |-> [k \in DOMAIN required |->
                 IF k \in throws THEN UndefinedValue
                 ELSE [v |-> "value", key |-> k, by |-> required[k], of |-> r]],
    calls |-> LET Failed(k) == k \in DOMAIN required /\ k \in throws
                  failed == SelectSeq(KeyOrder, Failed)
              IN [i \in 1 .. Len(failed) |-> Event("logger.error KO OPA-MID--FETCH-DATA", failed[i])] ]

\* A plausible slip: the whole request handed over as `req`.
toPolicyEvaluationRequestWholeRequest(input, required) ==
  [ input |-> ("req" :> input) @@ required ]

\* toPolicyEvaluationRequestDefault: {input: {...required, req: {method, params}}}
toPolicyEvaluationRequestDefault(input, required) ==
  [ input |-> ("req" :> [method |-> input.method, params |-> input.params]) @@ required ]

\* What a caller's builder returns when it returns.
CustomPayload(by, r, required) == [builtBy |-> by, of |-> r, required |-> required]

\* decisionPathDefault takes no parameter and returns the resolver, so the
\* call decisionPath(req) evaluates to that function; the template literal
\* then inserts its source text.
ResolverSourceText == "req => (template literal of decisionPathDefault)"
decisionPathDefault(input) == <<ResolverSourceText>>

\* What a caller's resolver returns when it returns.
CustomPath == <<"/custom/path">>

\* `${opa.url}${decisionPath(req)}`
PolicyPath(url, path) == url \o path

\* The two variants of the route handler in the repository: src/index.ts,
\* and an earlier one that logs through req.log and has a built-in client.
IndexTs == "src/index.ts"
EarlierVariant == "earlier variant"

\* The third argument of the call to doPost: opaRequest in src/index.ts,
\* { input: opaRequest } in the earlier variant.
doPostData(variant, opaRequest) ==
  IF variant = EarlierVariant THEN [input |-> opaRequest] ELSE opaRequest

\* A plausible slip: the tag read from a top-level allow key.
LogTagTopLevel(data) == IF Truthy(data, "allow") THEN "OK" ELSE "KO"

\* data.result?.allow ? 'OK' : 'KO'
LogTag(data) ==
  IF "result" \in DOMAIN data /\ Truthy(data.result, "allow") THEN "OK" ELSE "KO"

\* A plausible slip: only the result kept as the decision.
PolicyEvaluationResultOnly(data, opaRequest, policyPath) ==
  [decision |-> IF "result" \in DOMAIN data THEN data.result ELSE EmptyObject,
   request |-> opaRequest, path |-> policyPath]

\* req.policyEvaluation = {decision: data, request: opaRequest, path: policyPath}
PolicyEvaluation(data, opaRequest, policyPath) ==
  [decision |-> data, request |-> opaRequest, path |-> policyPath]

\* A plausible slip: the environment flag ignored.
AdmissionControlFlagIgnored(flag, o) == o.dryRun.enabled

\* process.env.OPA_ADMISSION_CONTROL_DISABLED === 'true' || opa.dryRun.enabled
AdmissionControlDisabled(flag, o) == flag = "true" \/ o.dryRun.enabled

\* The handler returned by onDecisionDefault():
\*   decision?.allow ? next() : next(new Error(...)), decision being
\*   policyEvaluation.decision.  The sequence of arguments it calls next with.
onDecisionDefaultHandler(policyEvaluation) ==
  IF Truthy(policyEvaluation.decision, "allow") THEN <<NoArg>> ELSE <<Forbidden>>

\* onDecisionDefault itself, which is what `onDecision` is bound to when no
\* layer sets it: it takes no parameter and returns the handler above
\* without running it, so the call onDecision(req, res, next) calls its
\* continuation no times.
onDecisionDefault(policyEvaluation) == <<>>

\* A plausible slip: the host continuation invoked before the header is set.
DryRunContinuationNextFirst(production, o, err) ==
  [ calls   |-> <<Event("next", NoArg),
                  Event("res.append", IF err # NoArg THEN "reject" ELSE "allow")>>,
    headers |-> <<[name |-> o.dryRun.header, value |-> IF err # NoArg THEN "reject" ELSE "allow"]>> ]

\* The continuation handed to onDecision on the dry-run branch:
\* audit log in production, res.append(header, err ? 'reject' : 'allow'), next().
DryRunContinuation(production, o, err) ==
  [ calls   |-> (IF production
                 THEN <<Event("logger.error ADMISSION-CONTROL-DISABLED",
                              IF err # NoArg THEN "rejected" ELSE "not rejected")>>
                 ELSE <<>>)
                \o <<Event("res.append", IF err # NoArg THEN "reject" ELSE "allow"),
                     Event("next", NoArg)>>,
    headers |-> <<[name |-> o.dryRun.header, value |-> IF err # NoArg THEN "reject" ELSE "allow"]>> ]

\* The continuation handed to onDecision on the enforced branch: next itself.
HostContinuation(err) ==
  [ calls |-> <<Event("next", err)>>, headers |-> <<>> ]

\* What calling the continuation the handler was given does.
Continue(kind, production, o, err) ==
  IF kind = "dryRun" THEN DryRunContinuation(production, o, err) ELSE HostContinuation(err)

\* A plausible slip: the exception answered with a rejection of its own.
CatchAsForbidden(err) == <<Event("next", Forbidden)>>

\* A plausible slip: the catch clause calling the client once more.
CatchRetries(err) == <<Event("doPost", "called"), Event("next", err)>>

\* A plausible slip: the failure logged as a denial before it is forwarded.
CatchLogsDenial(err) == <<Event("logger.trace", "KO"), Event("next", err)>>

\* catch (err) { next(err) }
Catch(err) == <<Event("next", err)>>

\* Lines 93-125 for a Decision Handler behaving as b: the policyEvaluation
\* attached, the branch taken, and the calls made in their order.
OnFulfilled(o, flag, production, data, opaRequest, policyPath, b) ==
  LET kind == IF AdmissionControlDisabled(flag, o) THEN "dryRun" ELSE "next"
      done == IF b.calls = <<>> THEN [calls |-> <<>>, headers |-> <<>>]
              ELSE Continue(kind, production, o, b.calls[1])
  IN [ policyEvaluation |-> PolicyEvaluation(data, opaRequest, policyPath),
       kind    |-> kind,
       calls   |-> <<Event("logger.trace", LogTag(data)),
                     Event("policyEvaluation", "attached"),
                     Event("onDecision", kind)>>
                   \o done.calls
                   \o (IF b.throws THEN Catch(ErrHandler) ELSE <<>>),
       headers |-> done.headers ]

\* What a caller's Decision Handler may do when invoked: call its
\* continuation (now, with or without an error), throw, both, keep the
\* continuation to call it later, or answer the request itself.
CustomBehaviours ==
  { [calls |-> <<NoArg>>,      throws |-> FALSE, keeps |-> FALSE],
    [calls |-> <<ErrVerdict>>, throws |-> FALSE, keeps |-> FALSE],
    [calls |-> <<>>,           throws |-> TRUE,  keeps |-> FALSE],
    [calls |-> <<NoArg>>,      throws |-> TRUE,  keeps |-> FALSE],
    [calls |-> <<>>,           throws |-> FALSE, keeps |-> TRUE],
    [calls |-> <<>>,           throws |-> FALSE, keeps |-> FALSE] }

\* The behaviours of the effective Decision Handler of a configuration.
Behaviours(config, policyEvaluation) ==
  IF config.onDecision = BuiltinOnDecision
  THEN { [calls |-> onDecisionDefault(policyEvaluation), throws |-> FALSE, keeps |-> FALSE] }
  ELSE CustomBehaviours

\* ------------------------------------------------------------- actions
InitRequests ==
  /\ pc = [r \in Requests |-> "idle"]
  /\ req = [r \in Requests |-> Unset]
  /\ frame = [r \in Requests |-> NoFrame]
  /\ posted = [r \in Requests |-> <<>>]
  /\ headers = [r \in Requests |-> <<>>]
  /\ trace = [r \in Requests |-> <<>>]

Init ==
  /\ opa \in PolicyConfigurations
  /\ defaults \in DefaultsInputs
  /\ routes = [n \in RouteNames |-> NoRoute]
  /\ InitRequests

\* A plausible slip: merge(defaults, options), the caller-supplied defaults
\* being the object merged into.
opaMiddlewareIntoDefaults(n, options) ==
  /\ ~routes[n].created
  /\ routes' = [routes EXCEPT ![n] = [created |-> TRUE, options |-> options,
                                      variant |-> IndexTs,
                                      config |-> Destructure(merge(defaults, options))]]
  /\ defaults' = merge(defaults, options)
  /\ UNCHANGED <<opa, reqVars>>

\* opaMiddleware(options), registered for route n: a route handler is
\* created from the layers merged into a fresh object.
opaMiddleware(n, options) ==
  /\ ~routes[n].created
  /\ routes' = [routes EXCEPT ![n] = [created |-> TRUE, options |-> options,
                                      variant |-> IndexTs,
                                      config |-> Destructure(merge(defaults, options))]]
  /\ UNCHANGED <<confVars, reqVars>>

\* The same in the earlier variant of the module.
opaMiddlewareEarlier(n, options) ==
  /\ ~routes[n].created
  /\ routes' = [routes EXCEPT ![n] = [created |-> TRUE, options |-> options,
                                      variant |-> EarlierVariant,
                                      config |-> Destructure(merge(defaults, options))]]
  /\ UNCHANGED <<confVars, reqVars>>

\* The host calls the handler of route n with request r: fetchRequiredData
\* runs, then the handler suspends at `await`.
Handle(r, n, input, throws) ==
  /\ pc[r] = "idle"
  /\ routes[n].created
  /\ throws \subseteq DOMAIN routes[n].config.required
  /\ LET f == fetchRequiredData(r, routes[n].config.required, throws)
     IN /\ req' = [req EXCEPT ![r] = [input |-> input, route |-> n, policyEvaluation |-> Unset]]
        /\ frame' = [frame EXCEPT ![r].requiredData = f.data, ![r].threw = throws]
        /\ trace' = [trace EXCEPT ![r] = @ \o f.calls]
  /\ pc' = [pc EXCEPT ![r] = "fetched"]
  /\ UNCHANGED <<confVars, routes, posted, headers>>

\* The handler resumes: payload, path, and the call to doPost, at whose
\* `await` it suspends again; an exception goes to the catch clause.
Build(r, builderThrows, pathThrows) ==
  /\ pc[r] = "fetched"
  /\ LET config == routes[req[r].route].config
         builtin == config.toPolicyEvaluationRequest = BuiltinBuilder
         opaRequest == IF builtin
                       THEN toPolicyEvaluationRequestDefault(req[r].input, frame[r].requiredData)
                       ELSE CustomPayload(config.toPolicyEvaluationRequest, r, frame[r].requiredData)
         path == IF config.decisionPath = BuiltinPath
                 THEN decisionPathDefault(req[r].input) ELSE CustomPath
         policyPath == PolicyPath(opa.url, path)
     IN /\ builderThrows => ~builtin
        /\ pathThrows => config.decisionPath # BuiltinPath /\ ~builderThrows
        /\ IF builderThrows \/ pathThrows
           THEN /\ trace' = [trace EXCEPT ![r] = @ \o Catch(IF builderThrows THEN ErrBuilder ELSE ErrPath)]
                /\ frame' = IF builderThrows
                            THEN [frame EXCEPT ![r].raised = ErrBuilder]
                            ELSE [frame EXCEPT ![r].opaRequest = opaRequest, ![r].raised = ErrPath]
                /\ pc' = [pc EXCEPT ![r] = "done"]
                /\ UNCHANGED posted
           ELSE /\ frame' = [frame EXCEPT ![r].opaRequest = opaRequest, ![r].policyPath = policyPath]
                /\ posted' = [posted EXCEPT ![r] =
                                Append(@, [url |-> policyPath,
                                           data |-> doPostData(routes[req[r].route].variant, opaRequest)])]
                /\ trace' = [trace EXCEPT ![r] = Append(@, Event("doPost", "called"))]
                /\ pc' = [pc EXCEPT ![r] = "awaiting"]
  /\ UNCHANGED <<confVars, routes, req, headers>>

\* The doPost promise is rejected: the catch clause runs.
Rejected(r) ==
  /\ pc[r] = "awaiting"
  /\ trace' = [trace EXCEPT ![r] = @ \o Catch(ErrPost)]
  /\ frame' = [frame EXCEPT ![r].raised = ErrPost]
  /\ pc' = [pc EXCEPT ![r] = "done"]
  /\ UNCHANGED <<confVars, routes, req, posted, headers>>

\* The doPost promise is fulfilled with {data}: trace log, policyEvaluation
\* attached, then the Decision Handler is invoked with the continuation of
\* the branch taken; what it throws goes to the catch clause.  `flag` is
\* what process.env.OPA_ADMISSION_CONTROL_DISABLED holds, `production` what
\* process.env.NODE_ENV === 'production' evaluates to if it is read.
Resolved(r, data, b, flag, production) ==
  /\ pc[r] = "awaiting"
  /\ LET config == routes[req[r].route].config
         out == OnFulfilled(opa, flag, production, data, frame[r].opaRequest, frame[r].policyPath, b)
     IN /\ b \in Behaviours(config, out.policyEvaluation)
        /\ production => out.kind = "dryRun" /\ b.calls # <<>>
        /\ req' = [req EXCEPT ![r].policyEvaluation = out.policyEvaluation]
        /\ frame' = [frame EXCEPT ![r].data = data,
                                  ![r].continuation = IF b.keeps THEN out.kind ELSE "none",
                                  ![r].raised = IF b.throws THEN ErrHandler ELSE "none",
                                  ![r].flag = flag,
                                  ![r].passed = b.calls]
        /\ headers' = [headers EXCEPT ![r] = @ \o out.headers]
        /\ trace' = [trace EXCEPT ![r] = @ \o out.calls]
        /\ pc' = [pc EXCEPT ![r] = IF b.keeps THEN "pending" ELSE "done"]
  /\ UNCHANGED <<confVars, routes, posted>>

\* A Decision Handler that kept its continuation calls it.
ContinuationCalled(r, err, production) ==
  /\ pc[r] = "pending"
  /\ production => frame[r].continuation = "dryRun"
  /\ LET done == Continue(frame[r].continuation, production, opa, err)
     IN /\ headers' = [headers EXCEPT ![r] = @ \o done.headers]
        /\ trace' = [trace EXCEPT ![r] = @ \o done.calls]
  /\ frame' = [frame EXCEPT ![r].continuation = "none", ![r].passed = <<err>>]
  /\ pc' = [pc EXCEPT ![r] = "done"]
  /\ UNCHANGED <<confVars, routes, req, posted>>

\* Every behaviour a Decision Handler may show, built-in or the caller's.
AllBehaviours == CustomBehaviours \cup { [calls |-> <<>>, throws |-> FALSE, keeps |-> FALSE] }

Requesting ==
  \/ \E r \in Requests, n \in RouteNames, input \in RequestInputs, throws \in SUBSET Keys :
       Handle(r, n, input, throws)
  \/ \E r \in Requests, bt \in BOOLEAN, pt \in BOOLEAN : Build(r, bt, pt)
  \/ \E r \in Requests : Rejected(r)
  \/ \E r \in Requests, data \in Decisions, b \in AllBehaviours,
        flag \in {"true", "not true"}, production \in BOOLEAN :
       Resolved(r, data, b, flag, production)
  \/ \E r \in Requests, err \in {NoArg, ErrVerdict}, production \in BOOLEAN :
       ContinuationCalled(r, err, production)

\* The request pipeline, on the routes it is exercised on.
Next ==
  \/ \E n \in PipelineRoutes, options \in OptionsInputs : opaMiddleware(n, options)
  \/ Requesting

Spec == Init /\ [][Next]_vars

\* Route registration alone, over every layer.
InitConfig ==
  /\ opa \in PolicyConfigurations
  /\ defaults \in AllLayers(FromDefaults)
  /\ routes = [n \in RouteNames |-> NoRoute]
  /\ InitRequests

NextConfig == \E n \in RouteNames, options \in AllLayers(FromOptions) : opaMiddleware(n, options)

SpecConfig == InitConfig /\ [][NextConfig]_vars

\* Several requests in flight on two routes, each registered with its own
\* overrides through either variant of the module; a decision carries the
\* identifier of the call it answers.
ConcurrentRequests == 1 .. MaxRequests + 1

RouteOptions ==
  [ n \in RouteNames |-> IF n = "/users" THEN Layer(FromOptions, {}, {"b"})
                         ELSE Layer(FromOptions, {"toPolicyEvaluationRequest", "decisionPath"}, {}) ]

DecisionsOf(r) == { [decision_id |-> ToString(r), result |-> [allow |-> b]] : b \in BOOLEAN }

CallingBehaviours ==
  { [calls |-> <<NoArg>>,      throws |-> FALSE, keeps |-> FALSE],
    [calls |-> <<ErrVerdict>>, throws |-> FALSE, keeps |-> FALSE] }

InitRoutes ==
  /\ opa \in PolicyConfigurations
  /\ defaults = Layer(FromDefaults, {"onDecision"}, {"a"})
  /\ routes = [n \in RouteNames |-> NoRoute]
  /\ pc = [r \in ConcurrentRequests |-> "idle"]
  /\ req = [r \in ConcurrentRequests |-> Unset]
  /\ frame = [r \in ConcurrentRequests |-> NoFrame]
  /\ posted = [r \in ConcurrentRequests |-> <<>>]
  /\ headers = [r \in ConcurrentRequests |-> <<>>]
  /\ trace = [r \in ConcurrentRequests |-> <<>>]

NextRoutes ==
  \/ \E n \in RouteNames : opaMiddleware(n, RouteOptions[n])
  \/ \E n \in RouteNames : opaMiddlewareEarlier(n, RouteOptions[n])
  \/ \E r \in ConcurrentRequests, n \in RouteNames, input \in RequestInputs, throws \in SUBSET {"a"} :
       Handle(r, n, input, throws)
  \/ \E r \in ConcurrentRequests : Build(r, FALSE, FALSE)
  \/ \E r \in ConcurrentRequests : Rejected(r)
  \/ \E r \in ConcurrentRequests :
       \E data \in DecisionsOf(r), b \in CallingBehaviours :
         Resolved(r, data, b, "not true", FALSE)

SpecRoutes == InitRoutes /\ [][NextRoutes]_vars

\* =============================================================== claims
Config(r) == routes[req[r].route].config

\* The arguments the host continuation was called with, in order.
NextArgs(r) ==
  LET IsNext(e) == e.ev = "next"
      calls == SelectSeq(trace[r], IsNext)
  IN [i \in 1 .. Len(calls) |-> calls[i].arg]

\* No onDecision in the caller defaults nor in the route options.
DefaultDecisionHandler(r) ==
  /\ pc[r] # "idle"
  /\ defaults.onDecision = Undefined
  /\ routes[req[r].route].options.onDecision = Undefined

\* The client returned a decision for r.
Decided(r) == frame[r].data # Unset

\* result.allow = true
AllowTrue(data) ==
  /\ "result" \in DOMAIN data
  /\ "allow" \in DOMAIN data.result
  /\ data.result.allow = TRUE

\* The request was handled on the dry-run branch of the specification:
\* dryRun.enabled, or the flag read as 'true'.
DryRunMode(r) == opa.dryRun.enabled \/ frame[r].flag = "true"

HeaderIs(r, value) == headers[r] = <<[name |-> opa.dryRun.header, value |-> value]>>

\* C1: with the default Decision Handler and result.allow = true the host
\* continuation is invoked, with no error, in either mode, and in dry-run
\* mode the dry-run header is 'allow'.
C1_DefaultAllowProceeds ==
  \A r \in Requests :
    (pc[r] = "done" /\ DefaultDecisionHandler(r) /\ Decided(r) /\ AllowTrue(frame[r].data))
    => /\ NextArgs(r) = <<NoArg>>
       /\ DryRunMode(r) => HeaderIs(r, "allow")

\* C2: in enforced mode, with the default Decision Handler and result.allow
\* false or missing, the host continuation is invoked with the FORBIDDEN
\* error and never without an error.
C2_DefaultDenyForbidden ==
  \A r \in Requests :
    (pc[r] = "done" /\ DefaultDecisionHandler(r) /\ Decided(r) /\ ~AllowTrue(frame[r].data)
       /\ ~DryRunMode(r))
    => /\ NextArgs(r) # <<>>
       /\ \A i \in DOMAIN NextArgs(r) : NextArgs(r)[i] = Forbidden

\* C3: with dryRun.enabled, the default Decision Handler and result.allow
\* false or missing, the host continuation is invoked with no error and the
\* dry-run header is 'reject'.
C3_DryRunDenyProceeds ==
  \A r \in Requests :
    (pc[r] = "done" /\ DefaultDecisionHandler(r) /\ Decided(r) /\ ~AllowTrue(frame[r].data)
       /\ opa.dryRun.enabled)
    => /\ NextArgs(r) = <<NoArg>>
       /\ HeaderIs(r, "reject")

\* C4: in dry-run mode, once the client returned a decision and the
\* effective Decision Handler (the built-in one, or a caller's that passes
\* a value to its continuation and does not throw) has run, the host
\* continuation has been invoked, and never with an error.
C4_DryRunNeverBlocks ==
  \A r \in Requests :
    (pc[r] = "done" /\ Decided(r) /\ DryRunMode(r) /\ frame[r].raised = "none"
       /\ (Config(r).onDecision = BuiltinOnDecision \/ frame[r].passed # <<>>))
    => /\ NextArgs(r) # <<>>
       /\ \A i \in DOMAIN NextArgs(r) : NextArgs(r)[i] = NoArg

\* C5: the extracted field map has exactly the keys of the required
\* mapping, undefined under each key whose extractor threw and the
\* extractor's value under every other; a throwing extractor does not end
\* the handling: nothing is forwarded to the host continuation by the
\* extraction, and unless the builder or the resolver throws the payload is
\* built and the remote call made.
C5_ExtractionIsolated ==
  \A r \in Requests :
    pc[r] # "idle" =>
      LET required == Config(r).required
          fields == frame[r].requiredData
      IN /\ DOMAIN fields = DOMAIN required
         /\ \A k \in DOMAIN required :
              fields[k] = IF k \in frame[r].threw THEN UndefinedValue
                          ELSE [v |-> "value", key |-> k, by |-> required[k], of |-> r]
         /\ pc[r] = "fetched" => \A i \in DOMAIN trace[r] : trace[r][i].ev # "next"
         /\ (pc[r] # "fetched" /\ frame[r].raised \notin {ErrBuilder, ErrPath})
              => /\ Len(posted[r]) = 1
                 /\ frame[r].opaRequest # Unset
                 /\ posted[r][1].data = frame[r].opaRequest

\* An extractor threw, another returned, and the remote call was made.
C5_Witness ==
  \E r \in Requests :
    /\ frame[r].threw # {}
    /\ DOMAIN Config(r).required \ frame[r].threw # {}
    /\ Len(posted[r]) = 1

\* C6: an exception raised by the builder, the resolver, the client or the
\* Decision Handler is what the host continuation is called with, last;
\* before the decision nothing else is forwarded and no header is set, and
\* no FORBIDDEN rejection stands in for it.
C6_ExceptionsForwarded ==
  \A r \in Requests :
    frame[r].raised # "none" =>
      /\ pc[r] = "done"
      /\ NextArgs(r) # <<>>
      /\ NextArgs(r)[Len(NextArgs(r))] = frame[r].raised
      /\ Forbidden \notin { NextArgs(r)[i] : i \in DOMAIN NextArgs(r) }
      /\ frame[r].raised \in {ErrBuilder, ErrPath, ErrPost}
           => NextArgs(r) = <<frame[r].raised>> /\ headers[r] = <<>>
      /\ frame[r].raised = ErrHandler
           => NextArgs(r) = (IF frame[r].passed = <<>> THEN <<>>
                             ELSE IF DryRunMode(r) THEN <<NoArg>> ELSE frame[r].passed)
                            \o <<ErrHandler>>

\* A Decision Handler passed no error to its dry-run continuation and then
\* threw: the exception reached the host continuation.
C6_Witness ==
  \E r \in Requests : frame[r].raised = ErrHandler /\ frame[r].passed = <<NoArg>> /\ DryRunMode(r)

\* C7: once the remote call has succeeded, every invocation of the Decision
\* Handler or of the host continuation comes after policyEvaluation was
\* attached, and policyEvaluation is {decision: the data returned, request:
\* the payload posted, path: the url posted = base address + resolved path}.
C7_PolicyEvaluationCaptured ==
  \A r \in Requests :
    Decided(r) =>
      /\ req[r].policyEvaluation =
           [decision |-> frame[r].data, request |-> posted[r][1].data, path |-> posted[r][1].url]
      /\ SubSeq(req[r].policyEvaluation.path, 1, Len(opa.url)) = opa.url
      /\ \A i \in DOMAIN trace[r] :
           trace[r][i].ev \in {"onDecision", "next"}
           => \E j \in 1 .. (i - 1) : trace[r][j].ev = "policyEvaluation"

\* A decision carrying keys besides result was returned and the host
\* continuation was invoked.
C7_Witness ==
  \E r \in Requests :
    /\ Decided(r)
    /\ "allow" \in DOMAIN frame[r].data
    /\ "result" \in DOMAIN frame[r].data
    /\ NextArgs(r) # <<>>

\* What an observer sees of a verdict: the OK/KO tags logged, the kinds of
\* argument the host continuation got, the header values set.
Observed(calls, hdrs) ==
  LET IsTag(e) == e.ev = "logger.trace"
      IsNext(e) == e.ev = "next"
      tags == SelectSeq(calls, IsTag)
      nexts == SelectSeq(calls, IsNext)
  IN [ tags    |-> [i \in 1 .. Len(tags) |-> tags[i].arg],
       nexts   |-> [i \in 1 .. Len(nexts) |-> IF nexts[i].arg = NoArg THEN "none" ELSE "error"],
       headers |-> [i \in 1 .. Len(hdrs) |-> hdrs[i].value] ]

SameResultAllow(d1, d2) ==
  /\ AllowTrue(d1) <=> AllowTrue(d2)
  /\ ("result" \in DOMAIN d1 /\ "allow" \in DOMAIN d1.result)
       <=> ("result" \in DOMAIN d2 /\ "allow" \in DOMAIN d2.result)

Precedence(o, d, builtin) == IF o # Undefined THEN o ELSE IF d # Undefined THEN d ELSE builtin

C9_LayeredMerge ==
  \A n \in RouteNames :
    routes[n].created =>
      LET o == routes[n].options
          c == routes[n].config
      IN /\ c.toPolicyEvaluationRequest =
              Precedence(o.toPolicyEvaluationRequest, defaults.toPolicyEvaluationRequest, BuiltinBuilder)
         /\ c.decisionPath = Precedence(o.decisionPath, defaults.decisionPath, BuiltinPath)
         /\ c.onDecision = Precedence(o.onDecision, defaults.onDecision, BuiltinOnDecision)
         /\ DOMAIN c.required = DOMAIN defaults.required \cup DOMAIN o.required
         /\ \A k \in DOMAIN c.required :
              c.required[k] = IF k \in DOMAIN o.required THEN o.required[k] ELSE defaults.required[k]

\* A route that declares extractor b and no stage, under defaults that
\* declare extractor a and a Decision Handler: both extractors and the
\* defaults' handler are in its configuration.
C9_Witness ==
  \E n \in RouteNames :
    /\ routes[n].created
    /\ DOMAIN defaults.required = {"a"}
    /\ DOMAIN routes[n].options.required = {"b"}
    /\ defaults.onDecision # Undefined
    /\ routes[n].options.onDecision = Undefined
    /\ routes[n].config.onDecision = FromDefaults
    /\ DOMAIN routes[n].config.required = {"a", "b"}

\* What the dry-run branch shows for what the Decision Handler did.
DryRunOutcome(r) ==
  /\ headers[r] = IF frame[r].passed = <<>> THEN <<>>
                  ELSE <<[name |-> opa.dryRun.header,
                          value |-> IF frame[r].passed[1] = NoArg THEN "allow" ELSE "reject"]>>
  /\ NextArgs(r) = (IF frame[r].passed = <<>> THEN <<>> ELSE <<NoArg>>)
                   \o (IF frame[r].raised = ErrHandler THEN <<ErrHandler>> ELSE <<>>)

\* What the enforced branch shows for what the Decision Handler did.
EnforcedOutcome(r) ==
  /\ headers[r] = <<>>
  /\ NextArgs(r) = frame[r].passed
                   \o (IF frame[r].raised = ErrHandler THEN <<ErrHandler>> ELSE <<>>)

\* C10: with dryRun.enabled = false, a request for which the flag read
\* 'true' shows the dry-run outcome, the same a request under
\* dryRun.enabled = true shows; one for which it read anything else shows
\* the enforced outcome.
C10_FlagOverridesEnforcement ==
  \A r \in Requests :
    Decided(r) =>
      IF opa.dryRun.enabled \/ frame[r].flag = "true" THEN DryRunOutcome(r) ELSE EnforcedOutcome(r)

\* dryRun.enabled = false, the flag read 'true', and the caller's Decision
\* Handler passed an error: header 'reject', continuation without error.
C10_Witness ==
  \E r \in Requests :
    /\ Decided(r) /\ ~opa.dryRun.enabled /\ frame[r].flag = "true"
    /\ frame[r].passed = <<ErrVerdict>>
    /\ HeaderIs(r, "reject")
    /\ NextArgs(r) = <<NoArg>>


\* ------------------------------------------------------------------ C11
\* The path the default resolver is described to build: the base mount
\* path, then for each path parameter in order "/" and the parameter's
\* name without its trailing "_id".
WithoutTrailingId(name) == CASE name = "user_id" -> "user" [] OTHER -> name

RECURSIVE Segments(_)
Segments(params) ==
  IF params = <<>> THEN <<>>
  ELSE <<"/", WithoutTrailingId(Head(params))>> \o Segments(Tail(params))

DescribedPath(input) == <<input.baseUrl>> \o Segments(input.params)

\* C11: with the default decision-path resolver, the path passed to the
\* decision-point client is the base address followed by the request's base
\* mount path and, for each named path parameter in order, "/" and the
\* parameter's name with a trailing "_id" removed.
C11_DefaultPathFromParams ==
  \A r \in Requests :
    (posted[r] # <<>> /\ Config(r).decisionPath = BuiltinPath)
    => posted[r][1].url = opa.url \o DescribedPath(req[r].input)


\* ------------------------------------------------------------------ C12
\* The payload of request r was built by the default builder.
DefaultBuilt(r) ==
  /\ frame[r].opaRequest # Unset
  /\ Config(r).toPolicyEvaluationRequest = BuiltinBuilder

ClientCalls(r) ==
  LET IsPost(e) == e.ev = "doPost"
  IN Len(SelectSeq(trace[r], IsPost))

\* Extraction, payload build and path resolution of r have completed.
BuiltAndResolved(r) ==
  /\ pc[r] \in {"awaiting", "pending", "done"}
  /\ frame[r].raised \notin {ErrBuilder, ErrPath}

\* C13: the decision-point client is invoked at most once for a request,
\* exactly once when extraction, payload build and path resolution have
\* completed, and not again after the call failed.
C13_OneOutboundCall ==
  \A r \in Requests :
    /\ ClientCalls(r) <= 1
    /\ Len(posted[r]) = ClientCalls(r)
    /\ BuiltAndResolved(r) => ClientCalls(r) = 1
    /\ ~BuiltAndResolved(r) => ClientCalls(r) = 0

C13_Witness ==
  \E r \in Requests :
    /\ pc[r] = "done"
    /\ frame[r].raised = ErrPost
    /\ Len(posted[r]) = 1


\* ------------------------------------------------------------------ C14
\* The fields extracted for r are values read from r.
OwnFields(r) ==
  frame[r].requiredData # Unset
  => \A k \in DOMAIN frame[r].requiredData :
       frame[r].requiredData[k] # UndefinedValue => frame[r].requiredData[k].of = r

\* The payload built for r carries r's extracted fields.
OwnPayload(r) ==
  frame[r].opaRequest # Unset
  => IF Config(r).toPolicyEvaluationRequest = BuiltinBuilder
     THEN \A k \in DOMAIN frame[r].requiredData :
            frame[r].opaRequest.input[k] = frame[r].requiredData[k]
     ELSE /\ frame[r].opaRequest.of = r
          /\ frame[r].opaRequest.required = frame[r].requiredData

\* policyEvaluation of r holds the decision that answered r's call, with
\* r's payload and the path of r's route.
OwnDecision(r) ==
  Decided(r)
  => /\ req[r].policyEvaluation.decision.decision_id = ToString(r)
     /\ req[r].policyEvaluation.decision = frame[r].data
     /\ req[r].policyEvaluation.request = frame[r].opaRequest
     /\ req[r].policyEvaluation.path =
          opa.url \o (IF Config(r).decisionPath = BuiltinPath
                      THEN decisionPathDefault(req[r].input) ELSE CustomPath)

\* The log tag, continuation arguments and header of r follow from r's
\* decision and from what the Decision Handler did when invoked for r.
OwnVerdict(r) ==
  Decided(r)
  => /\ \E i \in 1 .. Len(trace[r]) :
          trace[r][i] = Event("logger.trace", LogTag(req[r].policyEvaluation.decision))
     /\ IF DryRunMode(r) THEN DryRunOutcome(r) ELSE EnforcedOutcome(r)

\* C14: whatever the order in which the calls of concurrent requests are
\* issued and answered, each request holds its own extracted fields, its
\* own payload, the decision of its own call and the path of its own
\* route, and its verdict follows from these alone.
C14_RequestsIsolated ==
  \A r \in DOMAIN pc :
    OwnFields(r) /\ OwnPayload(r) /\ OwnDecision(r) /\ OwnVerdict(r)

\* Two requests on different routes, one answered while the other is still
\* waiting for its decision.
C14_Witness ==
  \E r1 \in DOMAIN pc, r2 \in DOMAIN pc :
    /\ r1 < r2
    /\ pc[r1] = "awaiting"
    /\ pc[r2] = "done" /\ Decided(r2)
    /\ req[r1].route # req[r2].route
    /\ \E k \in DOMAIN frame[r2].requiredData : frame[r2].requiredData[k] # UndefinedValue


\* ------------------------------------------------------------------ C15
\* A step leaves the policy configuration, the caller-supplied defaults and
\* every handler already created (its options and its effective
\* configuration) as they were, and a handler's effective configuration is
\* what its own options and the defaults give.
ConfigurationKept ==
  /\ opa' = opa
  /\ defaults' = defaults
  /\ \A n \in RouteNames : routes[n].created => routes'[n] = routes[n]
  /\ \A n \in RouteNames :
       routes'[n].created
       => routes'[n].config = Destructure(merge(defaults', routes'[n].options))

\* C15: no step writes the configuration: creating a route handler leaves
\* the policy configuration, the defaults and the handlers created earlier
\* unchanged, and so does every step of handling a request.
C15_ConfigurationNeverWritten == [][ConfigurationKept]_vars

\* Both routes registered with different effective configurations, and a
\* request handled to its end.
C15_Witness ==
  /\ \A n \in RouteNames : routes[n].created
  /\ routes["/users"].config # routes["/items"].config
  /\ \E r \in DOMAIN pc : pc[r] = "done" /\ Decided(r)


\* ------------------------------------------------------------------ C16
\* C16: the payload passed to the decision-point client is the value the
\* builder returned, with no envelope around it, and is the value recorded
\* as policyEvaluation.request; the URL passed is the one recorded as
\* policyEvaluation.path.
C16_PostedAsBuilt ==
  \A r \in DOMAIN pc :
    posted[r] # <<>>
    => /\ posted[r][1].data = frame[r].opaRequest
       /\ posted[r][1].url = frame[r].policyPath
       /\ Decided(r) => /\ req[r].policyEvaluation.request = posted[r][1].data
                        /\ req[r].policyEvaluation.path = posted[r][1].url


\* ------------------------------------------------------------------ C17
\* Every res.append in the calls of r comes before any call of the host
\* continuation and is followed at once by next().
HeaderBeforeNext(r) ==
  \A i \in 1 .. Len(trace[r]) :
    trace[r][i].ev = "res.append"
    => /\ i < Len(trace[r])
       /\ trace[r][i + 1] = Event("next", NoArg)
       /\ \A j \in 1 .. i : trace[r][j].ev # "next"

\* C17: the dry-run header is set only on the dry-run branch, never in
\* enforced mode; it is set before the host continuation is invoked; its
\* value is 'reject' exactly when the Decision Handler passed an error to
\* its continuation, 'allow' otherwise.
C17_HeaderOnDryRunBranch ==
  \A r \in Requests :
    /\ headers[r] # <<>> => DryRunMode(r) /\ frame[r].passed # <<>>
    /\ (Decided(r) /\ ~DryRunMode(r))
       => \A i \in 1 .. Len(trace[r]) : trace[r][i].ev # "res.append"
    /\ HeaderBeforeNext(r)
    /\ headers[r] # <<>>
       => \E value \in {"allow", "reject"} :
            /\ HeaderIs(r, value)
            /\ value = "reject" <=> frame[r].passed[1] # NoArg
            /\ \E i \in 1 .. Len(trace[r]) : trace[r][i] = Event("res.append", value)

\* A dry-run request whose Decision Handler passed an error: header 'reject'.
C17_Witness ==
  \E r \in Requests :
    /\ pc[r] = "done"
    /\ DryRunMode(r)
    /\ frame[r].passed = <<ErrVerdict>>
    /\ HeaderIs(r, "reject")


\* ------------------------------------------------------------------ C18
\* C18: for a request handled to its end under the built-in Decision
\* Handler, or under a caller's handler that called its continuation once,
\* the host continuation has been invoked exactly once.
C18_HostContinuationOnce ==
  \A r \in Requests :
    (/\ pc[r] = "done"
     /\ \/ Decided(r) /\ Config(r).onDecision = BuiltinOnDecision
        \/ Len(frame[r].passed) = 1)
    => Len(NextArgs(r)) = 1


\* ------------------------------------------------------------------ C19
\* C19: when the call to the decision-point client fails, policyEvaluation
\* is not attached, the Decision Handler is not invoked, no OK/KO trace
\* entry is emitted, the flag is not read and the header is not set, with
\* dryRun.enabled or without; after the call, the handler only forwards the
\* error to the host continuation.
C19_FailedCallLeavesNoDecision ==
  \A r \in Requests :
    frame[r].raised = ErrPost
    => /\ pc[r] = "done"
       /\ req[r].policyEvaluation = Unset
       /\ frame[r].data = Unset
       /\ frame[r].flag = "unread"
       /\ headers[r] = <<>>
       /\ \A i \in 1 .. Len(trace[r]) :
            trace[r][i].ev \notin {"logger.trace", "policyEvaluation", "onDecision", "res.append"}
       /\ NextArgs(r) = <<ErrPost>>
       /\ trace[r] = fetchRequiredData(r, Config(r).required, frame[r].threw).calls
                     \o <<Event("doPost", "called"), Event("next", ErrPost)>>

\* The call failed for a request under dryRun.enabled.
C19_Witness ==
  \E r \in Requests :
    /\ frame[r].raised = ErrPost
    /\ opa.dryRun.enabled
    /\ Len(posted[r]) = 1
    /\ NextArgs(r) = <<ErrPost>>

=============================================================================
